---- MODULE Spec2Model ----
(***************************************************************************)
(* A model of air_quality_app.py: the threshold classifier, the building   *)
(* name extraction, the pandas expressions the script applies to the       *)
(* measurement table (str.contains, mean, to_csv) and one run of the       *)
(* Streamlit script from the data load to the CSV download.                *)
(*                                                                         *)
(* Conventions.                                                            *)
(*   - A string is a sequence of one-character strings.                    *)
(*   - The Korean column names, pollutant keys and status words of the     *)
(*     source are written with ASCII stand-ins:                            *)
(*       column "site" (cheukjeong-jijeom, line 194), column "building"    *)
(*       (geonmulmyeong, line 194); pollutant keys in the order of the     *)
(*       table at lines 18-75: PM10, PM2.5, CO2, HCHO, CO, NO2, Radon,     *)
(*       TVOC; status words of lines 99-110: Unknown/white, Good/green,    *)
(*       Moderate/yellow, Bad/orange, VeryBad/red.                         *)
(*   - A number is a record [nan, n, d]: NaN (pandas' absent reading) or   *)
(*     the exact rational n/d. The unit is one hundredth of the source's   *)
(*     unit, so that the NO2 thresholds 0.03, 0.05, 0.10 are integers.     *)
(*     Floating-point rounding of a mean is not modelled.                  *)
(***************************************************************************)
EXTENDS Integers, Sequences, FiniteSets, TLC

VARIABLES
    pc,                 \* position of the script run
    file,               \* the CSV file read by load_data
    df,                 \* the DataFrame after the load
    search_button,      \* st.button result of this run
    selected_building,  \* st.selectbox / st.text_input result of this run
    building_data,      \* rows selected at line 263
    avg_values,         \* means computed at line 276
    status_calls,       \* calls of get_air_quality_status made by the run
    bad_items,          \* list built at lines 409-414
    overall_avg,        \* means computed at line 468
    shown,              \* what the run has put on the page
    csv,                \* table handed to st.download_button
    call,               \* a direct call of one function of the module
    ret                 \* its result

vars == <<pc, file, df, search_button, selected_building, building_data,
          avg_values, status_calls, bad_items, overall_avg, shown, csv,
          call, ret>>

----------------------------------------------------------------------------
(* Bounds of the model. *)

\* longest site label drawn for extract_building_name and the load
MaxLen == 4

\* most rows of a drawn table
MaxRows == 2

\* most rows of a row subset handed to the mean
MaxSubset == 3

----------------------------------------------------------------------------
(* Numbers. *)

NaN == [nan |-> TRUE, n |-> 0, d |-> 1]

Num(n) == [nan |-> FALSE, n |-> n, d |-> 1]

RECURSIVE GCD(_, _)
GCD(a, b) == IF b = 0 THEN a ELSE GCD(b, a % b)

\* the quotient of two naturals, in lowest terms
Rat(n, d) == LET g == GCD(n, d) IN [nan |-> FALSE, n |-> n \div g, d |-> d \div g]

\* Python's value <= t for a float value and a threshold t: False for NaN
Leq(value, t) == ~value.nan /\ value.n <= t * value.d

----------------------------------------------------------------------------
(* Lines 18-75: the threshold table, in hundredths of the unit. *)

Pollutants == {"PM10", "PM2.5", "CO2", "HCHO", "CO", "NO2", "Radon", "TVOC"}

AIR_QUALITY_STANDARDS ==
    [p \in Pollutants |->
        CASE p = "PM10"  -> [good |-> 3000,  moderate |-> 8000,  bad |-> 15000]
          [] p = "PM2.5" -> [good |-> 1500,  moderate |-> 3500,  bad |-> 7500]
          [] p = "CO2"   -> [good |-> 45000, moderate |-> 70000, bad |-> 100000]
          [] p = "HCHO"  -> [good |-> 6000,  moderate |-> 10000, bad |-> 21000]
          [] p = "CO"    -> [good |-> 500,   moderate |-> 1000,  bad |-> 2500]
          [] p = "NO2"   -> [good |-> 3,     moderate |-> 5,     bad |-> 10]
          [] p = "Radon" -> [good |-> 10000, moderate |-> 14800, bad |-> 20000]
          [] p = "TVOC"  -> [good |-> 40000, moderate |-> 50000, bad |-> 100000]]

\* a plausible slip: strict comparisons, a boundary reading falls in the worse tier
get_air_quality_status_strict(value, pollutant) ==
    IF pollutant \notin DOMAIN AIR_QUALITY_STANDARDS
    THEN <<"Unknown", "white">>
    ELSE LET standards == AIR_QUALITY_STANDARDS[pollutant] IN
         IF Leq(value, standards.good - 1) THEN <<"Good", "green">>
         ELSE IF Leq(value, standards.moderate - 1) THEN <<"Moderate", "yellow">>
         ELSE IF Leq(value, standards.bad - 1) THEN <<"Bad", "orange">>
         ELSE <<"VeryBad", "red">>

\* a plausible slip: no membership test, an unknown key is judged by the PM10 row
get_air_quality_status_nocheck(value, pollutant) ==
    LET standards == IF pollutant \in DOMAIN AIR_QUALITY_STANDARDS
                     THEN AIR_QUALITY_STANDARDS[pollutant]
                     ELSE AIR_QUALITY_STANDARDS["PM10"] IN
    IF Leq(value, standards.good) THEN <<"Good", "green">>
    ELSE IF Leq(value, standards.moderate) THEN <<"Moderate", "yellow">>
    ELSE IF Leq(value, standards.bad) THEN <<"Bad", "orange">>
    ELSE <<"VeryBad", "red">>

\* lines 96-110
get_air_quality_status(value, pollutant) ==
    IF pollutant \notin DOMAIN AIR_QUALITY_STANDARDS
    THEN <<"Unknown", "white">>
    ELSE LET standards == AIR_QUALITY_STANDARDS[pollutant] IN
         IF Leq(value, standards.good) THEN <<"Good", "green">>
         ELSE IF Leq(value, standards.moderate) THEN <<"Moderate", "yellow">>
         ELSE IF Leq(value, standards.bad) THEN <<"Bad", "orange">>
         ELSE <<"VeryBad", "red">>

----------------------------------------------------------------------------
(* Line 93: location.rsplit('-', 1)[0].strip() *)

IsSpace(c) == c \in {" ", "\t"}

\* str.rfind: the highest index <= i of s holding c, 0 when there is none
RECURSIVE RFind(_, _, _)
RFind(s, c, i) ==
    IF i = 0 THEN 0
    ELSE IF s[i] = c THEN i
    ELSE RFind(s, c, i - 1)

\* str.find: the lowest index >= i of s holding c, 0 when there is none
RECURSIVE Find(_, _, _)
Find(s, c, i) ==
    IF i > Len(s) THEN 0
    ELSE IF s[i] = c THEN i
    ELSE Find(s, c, i + 1)

\* s.rsplit(sep, 1)[0]
RSplitHead(s, sep) ==
    LET i == RFind(s, sep, Len(s)) IN
    IF i = 0 THEN s ELSE SubSeq(s, 1, i - 1)

\* s.split(sep, 1)[0]
SplitHead(s, sep) ==
    LET i == Find(s, sep, 1) IN
    IF i = 0 THEN s ELSE SubSeq(s, 1, i - 1)

RECURSIVE LStrip(_)
LStrip(s) ==
    IF s = <<>> THEN s
    ELSE IF IsSpace(Head(s)) THEN LStrip(Tail(s))
    ELSE s

RECURSIVE RStrip(_)
RStrip(s) ==
    IF s = <<>> THEN s
    ELSE IF IsSpace(s[Len(s)]) THEN RStrip(SubSeq(s, 1, Len(s) - 1))
    ELSE s

\* str.strip()
Strip(s) == RStrip(LStrip(s))

\* a plausible slip: split at the first hyphen
extract_building_name_first(location) == Strip(SplitHead(location, "-"))

\* a plausible slip: the whitespace is not trimmed
extract_building_name_nostrip(location) == RSplitHead(location, "-")

\* lines 91-93
extract_building_name(location) == Strip(RSplitHead(location, "-"))

----------------------------------------------------------------------------
(* Line 263: df['building'].str.contains(selected_building, case=False,    *)
(* na=False). regex is left at its default True, so pandas compiles the    *)
(* query with re.compile(pat, re.IGNORECASE) and keeps the rows where      *)
(* regex.search(name) finds a match. The pattern language is modelled for  *)
(* the characters the queries are drawn from: '.', '*', '(' and literals.  *)

Lower(c) == CASE c = "A" -> "a" [] c = "B" -> "b" [] c = "C" -> "c" [] OTHER -> c

\* re.compile succeeds: an unclosed '(' (there is no ')' among the characters),
\* a leading '*' (nothing to repeat) and '**' (multiple repeat) raise re.error
ReCompiles(pat) ==
    /\ \A i \in 1..Len(pat) : pat[i] # "("
    /\ (pat # <<>> => pat[1] # "*")
    /\ \A i \in 1..(Len(pat) - 1) : ~(pat[i] = "*" /\ pat[i + 1] = "*")

\* the compiled pattern from position i on: one item per character, starred or not
RECURSIVE ReItems(_, _)
ReItems(pat, i) ==
    IF i > Len(pat) THEN <<>>
    ELSE IF i < Len(pat) /\ pat[i + 1] = "*"
         THEN <<[ch |-> pat[i], star |-> TRUE]>> \o ReItems(pat, i + 2)
         ELSE <<[ch |-> pat[i], star |-> FALSE]>> \o ReItems(pat, i + 1)

\* one pattern character against one subject character, under re.IGNORECASE
ReCharMatches(ch, c) == ch = "." \/ Lower(ch) = Lower(c)

\* items i.. match s starting at position j
RECURSIVE ReMatchAt(_, _, _, _)
ReMatchAt(items, i, s, j) ==
    IF i > Len(items) THEN TRUE
    ELSE IF items[i].star
         THEN \/ ReMatchAt(items, i + 1, s, j)
              \/ /\ j <= Len(s)
                 /\ ReCharMatches(items[i].ch, s[j])
                 /\ ReMatchAt(items, i, s, j + 1)
         ELSE /\ j <= Len(s)
              /\ ReCharMatches(items[i].ch, s[j])
              /\ ReMatchAt(items, i + 1, s, j + 1)

\* regex.search(s) is not None
ReSearch(pat, s) ==
    LET items == ReItems(pat, 1) IN
    \E j \in 1..(Len(s) + 1) : ReMatchAt(items, 1, s, j)

\* df[df['building'].str.contains(pat, case=False, na=False)] for a pattern that compiles
StrContainsFilter(rows, pat) ==
    LET Keep(r) == ReSearch(pat, r.building) IN SelectSeq(rows, Keep)

----------------------------------------------------------------------------
(* Lines 276 and 468: frame.select_dtypes(include='number').mean()         *)

Range(s) == {s[i] : i \in 1..Len(s)}

\* the columns select_dtypes(include='number') keeps: the pollutant columns
\* (the site and building columns hold strings)
NumericColumns(columns) == Range(columns) \cap Pollutants

RECURSIVE SumPresent(_, _, _)
SumPresent(rows, k, i) ==
    IF i = 0 THEN 0
    ELSE SumPresent(rows, k, i - 1) + (IF rows[i].vals[k].nan THEN 0 ELSE rows[i].vals[k].n)

RECURSIVE CountPresent(_, _, _)
CountPresent(rows, k, i) ==
    IF i = 0 THEN 0
    ELSE CountPresent(rows, k, i - 1) + (IF rows[i].vals[k].nan THEN 0 ELSE 1)

\* a plausible slip: an absent reading is filled with zero and counted
ColumnMean_fillzero(rows, k) ==
    IF Len(rows) = 0 THEN NaN
    ELSE Rat(SumPresent(rows, k, Len(rows)), Len(rows))

\* Series.mean() with skipna=True: NaN when no reading is present
ColumnMean(rows, k) ==
    LET count == CountPresent(rows, k, Len(rows)) IN
    IF count = 0 THEN NaN
    ELSE Rat(SumPresent(rows, k, Len(rows)), count)

FrameMean(columns, rows) ==
    [k \in NumericColumns(columns) |-> ColumnMean(rows, k)]

----------------------------------------------------------------------------
(* Line 526: df.to_csv(index=False), and pd.read_csv of such a text.       *)

Digit(n) == CASE n = 0 -> "0" [] n = 1 -> "1" [] n = 2 -> "2" [] n = 3 -> "3"
              [] n = 4 -> "4" [] n = 5 -> "5" [] n = 6 -> "6" [] n = 7 -> "7"
              [] n = 8 -> "8" [] n = 9 -> "9"

DigitValue(c) == CHOOSE n \in 0..9 : Digit(n) = c

RECURSIVE Digits(_)
Digits(n) == IF n < 10 THEN <<Digit(n)>> ELSE Append(Digits(n \div 10), Digit(n % 10))

RECURSIVE ParseDigits(_, _)
ParseDigits(s, i) ==
    IF i = 0 THEN 0 ELSE 10 * ParseDigits(s, i - 1) + DigitValue(s[i])

\* a reading as CSV text: the empty field for NaN, the digits otherwise
FormatCell(v) == IF v.nan THEN <<>> ELSE Digits(v.n)

\* read_csv of a numeric field
ParseCell(s) == IF s = <<>> THEN NaN ELSE Num(ParseDigits(s, Len(s)))

\* the text table of a frame: every column of the frame, in the frame's order
ToCsv(frame) ==
    [header |-> frame.columns,
     rows   |-> [i \in 1..Len(frame.rows) |->
                   [site     |-> frame.rows[i].site,
                    building |-> frame.rows[i].building,
                    vals     |-> [k \in DOMAIN frame.rows[i].vals |->
                                     FormatCell(frame.rows[i].vals[k])]]]]

----------------------------------------------------------------------------
(* The inputs the runs are drawn from. *)

StringsUpTo(alphabet, n) == UNION {[1..m -> alphabet] : m \in 0..n}

TablesUpTo(rowpool, n) == UNION {[1..m -> rowpool] : m \in 1..n}

\* st.selectbox's first option (line 247)
Placeholder == <<"seontaekhaseyo">>

FullColumns == <<"site", "PM10", "PM2.5", "CO2", "HCHO", "CO", "NO2", "Radon", "TVOC">>

\* a row of a file with the given columns: a file holds no cell for a column it lacks
RowOf(columns, site, building, readings) ==
    [site     |-> IF "site" \in Range(columns) THEN site ELSE <<>>,
     building |-> IF "building" \in Range(columns) THEN building ELSE <<>>,
     vals     |-> [k \in NumericColumns(columns) |-> readings[k]]]

\* readings at the Good threshold of every pollutant
GoodReadings == [k \in Pollutants |-> Num(AIR_QUALITY_STANDARDS[k].good)]

FlowReadings ==
    {GoodReadings,
     [GoodReadings EXCEPT !["Radon"] = NaN],
     [GoodReadings EXCEPT !["PM10"] = Num(15001), !["PM2.5"] = NaN]}

FlowSites ==
    {<<"a", "-", "x">>, <<"a", "B", " ", "-", "x">>, <<"B", ".", "-", "x">>}

FlowTables ==
    TablesUpTo({RowOf(FullColumns, s, <<>>, r) : s \in FlowSites, r \in FlowReadings},
               MaxRows)

\* files whose header differs from the full one: an export loaded again (it has
\* the building column), a file without the Radon column, a file without the
\* site column
OtherColumns ==
    {Append(FullColumns, "building"),
     SelectSeq(FullColumns, LAMBDA c : c # "Radon"),
     Tail(FullColumns)}

Unreadable == [readable |-> FALSE, columns |-> <<>>, rows |-> <<>>]

FlowFiles ==
    {[readable |-> TRUE, columns |-> FullColumns, rows |-> t] : t \in FlowTables}
    \cup {[readable |-> TRUE, columns |-> c,
           rows |-> <<RowOf(c, s, <<"z">>, r)>>] :
             c \in OtherColumns, s \in FlowSites, r \in FlowReadings}
    \cup {Unreadable}

\* what the user may have typed into st.text_input
TextInputs ==
    {<<>>, Placeholder, <<"a">>, <<"A", "b">>, <<"x">>, <<".">>, <<"(">>,
     <<"a", "*">>, <<"*">>, <<"B", ".">>}

\* site labels of the load: every string over a letter, the hyphen and the blank
\* (read_csv reads an empty cell as NaN, never as the empty string)
LoadFiles ==
    {[readable |-> TRUE, columns |-> FullColumns,
      rows |-> <<RowOf(FullColumns, s, <<>>, GoodReadings)>>] :
        s \in StringsUpTo({"a", "-", " "}, MaxLen) \ {<<>>}}
    \cup {[readable |-> TRUE, columns |-> FullColumns, rows |-> t] :
            t \in TablesUpTo({RowOf(FullColumns, s, <<>>, GoodReadings) :
                                s \in {<<"-", "a">>, <<" ", "a", "-", "a">>}}, MaxRows)}
    \cup {Unreadable}

----------------------------------------------------------------------------
(* The script run. *)

EmptyMap == [k \in {} |-> NaN]

NoFrame == [columns |-> <<>>, rows |-> <<>>]

NoCsv == [header |-> <<>>, rows |-> <<>>]

NoCall == [fn |-> "none"]

NoRet == [done |-> FALSE]

InitRun(files) ==
    /\ pc = "start"
    /\ file \in files
    /\ df = NoFrame
    /\ search_button = FALSE
    /\ selected_building = <<>>
    /\ building_data = <<>>
    /\ avg_values = EmptyMap
    /\ status_calls = {}
    /\ bad_items = <<>>
    /\ overall_avg = EmptyMap
    /\ shown = {}
    /\ csv = NoCsv
    /\ call = NoCall
    /\ ret = NoRet

Init == InitRun(FlowFiles)

InitLoad == InitRun(LoadFiles)

\* lines 84-88 and 194 raise nothing: the file is read and has the site column
\* (the drawn files have at least one row and a string in every site cell)
LoadSucceeds(f) == f.readable /\ "site" \in Range(f.columns)

\* line 194: df['building'] = df['site'].apply(extract_building_name); a new
\* column is appended, an existing one of that name is overwritten in place
WithBuildingColumn(f) ==
    [columns |-> IF "building" \in Range(f.columns)
                 THEN f.columns ELSE Append(f.columns, "building"),
     rows    |-> [i \in 1..Len(f.rows) |->
                    [f.rows[i] EXCEPT !.building = extract_building_name(f.rows[i].site)]]]

\* lines 192-195
LoadOk ==
    /\ pc = "start"
    /\ LoadSucceeds(file)
    /\ df' = WithBuildingColumn(file)
    /\ shown' = shown \cup {"load_success"}
    /\ pc' = "widgets"
    /\ UNCHANGED <<file, search_button, selected_building, building_data, avg_values,
                   status_calls, bad_items, overall_avg, csv, call, ret>>

\* lines 196-198: st.error and st.stop
LoadFail ==
    /\ pc = "start"
    /\ ~LoadSucceeds(file)
    /\ shown' = shown \cup {"load_error"}
    /\ pc' = "stopped"
    /\ UNCHANGED <<file, df, search_button, selected_building, building_data,
                   avg_values, status_calls, bad_items, overall_avg, csv, call, ret>>

\* line 244: df['building'].unique()
Buildings(frame) == {frame.rows[i].building : i \in 1..Len(frame.rows)}

\* lines 237-255: the widgets return what the user chose before this run
Widgets ==
    /\ pc = "widgets"
    /\ \E search_method \in {"dropdown", "text"} :
         \E choice \in (IF search_method = "dropdown"
                        THEN {Placeholder} \cup Buildings(df)
                        ELSE TextInputs) :
            selected_building' = choice
    /\ search_button' \in BOOLEAN
    /\ pc' = "search"
    /\ UNCHANGED <<file, df, building_data, avg_values, status_calls, bad_items,
                   overall_avg, shown, csv, call, ret>>

\* the condition of line 261
QuerySubmitted ==
    search_button /\ selected_building # <<>> /\ selected_building # Placeholder

\* line 263 raises re.error, which nothing catches
SearchRegexError ==
    /\ pc = "search"
    /\ QuerySubmitted
    /\ ~ReCompiles(selected_building)
    /\ shown' = shown \cup {"exception"}
    /\ pc' = "crashed"
    /\ UNCHANGED <<file, df, search_button, selected_building, building_data,
                   avg_values, status_calls, bad_items, overall_avg, csv, call, ret>>

\* lines 263-267
SearchNotFound ==
    /\ pc = "search"
    /\ QuerySubmitted
    /\ ReCompiles(selected_building)
    /\ StrContainsFilter(df.rows, selected_building) = <<>>
    /\ building_data' = <<>>
    /\ shown' = shown \cup {"not_found"}
    /\ pc' = "overview"
    /\ UNCHANGED <<file, df, search_button, selected_building, avg_values,
                   status_calls, bad_items, overall_avg, csv, call, ret>>

\* lines 263-276
SearchFound ==
    /\ pc = "search"
    /\ QuerySubmitted
    /\ ReCompiles(selected_building)
    /\ StrContainsFilter(df.rows, selected_building) # <<>>
    /\ building_data' = StrContainsFilter(df.rows, selected_building)
    /\ avg_values' = FrameMean(df.columns, building_data')
    /\ shown' = shown \cup {"results"}
    /\ pc' = "tiles"
    /\ UNCHANGED <<file, df, search_button, selected_building, status_calls,
                   bad_items, overall_avg, csv, call, ret>>

\* lines 439-440
SearchWarn ==
    /\ pc = "search"
    /\ search_button
    /\ (selected_building = <<>> \/ selected_building = Placeholder)
    /\ shown' = shown \cup {"select_warning"}
    /\ pc' = "overview"
    /\ UNCHANGED <<file, df, search_button, selected_building, building_data,
                   avg_values, status_calls, bad_items, overall_avg, csv, call, ret>>

\* neither branch of lines 261 and 439: the button was not pressed
SearchSkip ==
    /\ pc = "search"
    /\ ~search_button
    /\ pc' = "overview"
    /\ UNCHANGED <<file, df, search_button, selected_building, building_data,
                   avg_values, status_calls, bad_items, overall_avg, shown, csv,
                   call, ret>>

\* one call of get_air_quality_status made by the run
StatusCall(at, pollutant, value) ==
    [at        |-> at,
     pollutant |-> pollutant,
     value     |-> value,
     status    |-> get_air_quality_status(value, pollutant)[1],
     icon      |-> get_air_quality_status(value, pollutant)[2]]

\* the order in which lines 287, 303 and 325-335 read avg_values
TileOrder == <<"PM10", "PM2.5", "CO2", "HCHO", "CO", "NO2", "Radon", "TVOC">>

\* the tiles rendered before avg_values[pollutant] raises KeyError, all when none does
TilesRendered ==
    LET missing == {i \in 1..Len(TileOrder) : TileOrder[i] \notin DOMAIN avg_values} IN
    IF missing = {} THEN 1..Len(TileOrder)
    ELSE {i \in 1..Len(TileOrder) : \A m \in missing : i < m}

\* lines 287-335: each tile classifies the mean; the two gauges of lines 299
\* and 315 classify it again (line 119)
TileCalls ==
    {StatusCall("tile", TileOrder[i], avg_values[TileOrder[i]]) : i \in TilesRendered}
    \cup {StatusCall("gauge", TileOrder[i], avg_values[TileOrder[i]]) :
            i \in TilesRendered \cap {1, 2}}

\* lines 278-345
TilesOk ==
    /\ pc = "tiles"
    /\ TilesRendered = 1..Len(TileOrder)
    /\ status_calls' = status_calls \cup TileCalls
    /\ shown' = shown \cup {"tiles"}
    /\ pc' = "advisory"
    /\ UNCHANGED <<file, df, search_button, selected_building, building_data,
                   avg_values, bad_items, overall_avg, csv, call, ret>>

\* lines 278-345 when the frame lacks a pollutant column: KeyError, uncaught
TilesKeyError ==
    /\ pc = "tiles"
    /\ TilesRendered # 1..Len(TileOrder)
    /\ status_calls' = status_calls \cup TileCalls
    /\ shown' = shown \cup {"exception"} \cup (IF TilesRendered = {} THEN {} ELSE {"tiles"})
    /\ pc' = "crashed"
    /\ UNCHANGED <<file, df, search_button, selected_building, building_data,
                   avg_values, bad_items, overall_avg, csv, call, ret>>

\* line 410: pollutants + ['PM10', 'PM2.5']
AdvisoryOrder == <<"CO2", "HCHO", "CO", "NO2", "Radon", "TVOC", "PM10", "PM2.5">>

\* lines 409-414
BadItems ==
    LET all == [i \in 1..Len(AdvisoryOrder) |->
                  StatusCall("advisory", AdvisoryOrder[i], avg_values[AdvisoryOrder[i]])]
        IsBad(c) == c.status \in {"Bad", "VeryBad"}
        bad == SelectSeq(all, IsBad)
    IN [i \in 1..Len(bad) |-> <<bad[i].pollutant, bad[i].status, bad[i].icon>>]

\* lines 347-437: the detail table, the comparison chart and the health advisory
Advisory ==
    /\ pc = "advisory"
    /\ status_calls' = status_calls \cup
         {StatusCall("advisory", AdvisoryOrder[i], avg_values[AdvisoryOrder[i]]) :
            i \in 1..Len(AdvisoryOrder)}
    /\ bad_items' = BadItems
    /\ shown' = shown \cup {"detail_table", "comparison_chart"}
                      \cup (IF BadItems # <<>> THEN {"advisory_warning"} ELSE {"all_good"})
    /\ pc' = "overview"
    /\ UNCHANGED <<file, df, search_button, selected_building, building_data,
                   avg_values, overall_avg, csv, call, ret>>

\* lines 446-516 read every pollutant column of df
OverviewColumnsPresent == Pollutants \subseteq Range(df.columns)

\* lines 446-516: the two overview charts and the metrics of the overall means
OverviewOk ==
    /\ pc = "overview"
    /\ OverviewColumnsPresent
    /\ overall_avg' = FrameMean(df.columns, df.rows)
    /\ shown' = shown \cup {"overview_charts", "overview_metrics"}
    /\ pc' = "export"
    /\ UNCHANGED <<file, df, search_button, selected_building, building_data,
                   avg_values, status_calls, bad_items, csv, call, ret>>

\* lines 446-516 when df lacks a pollutant column: KeyError, uncaught; it is
\* raised by the charts of lines 456-460 for PM10 and PM2.5, by the metrics of
\* lines 470-516, after line 468, for the others
OverviewKeyError ==
    /\ pc = "overview"
    /\ ~OverviewColumnsPresent
    /\ IF {"PM10", "PM2.5"} \subseteq Range(df.columns)
       THEN /\ overall_avg' = FrameMean(df.columns, df.rows)
            /\ shown' = shown \cup {"overview_charts", "exception"}
       ELSE /\ overall_avg' = overall_avg
            /\ shown' = shown \cup {"exception"}
    /\ pc' = "crashed"
    /\ UNCHANGED <<file, df, search_button, selected_building, building_data,
                   avg_values, status_calls, bad_items, csv, call, ret>>

\* lines 518-532
Export ==
    /\ pc = "export"
    /\ csv' = ToCsv(df)
    /\ shown' = shown \cup {"full_table", "download"}
    /\ pc' = "done"
    /\ UNCHANGED <<file, df, search_button, selected_building, building_data,
                   avg_values, status_calls, bad_items, overall_avg, call, ret>>

Next ==
    \/ LoadOk
    \/ LoadFail
    \/ Widgets
    \/ SearchRegexError
    \/ SearchNotFound
    \/ SearchFound
    \/ SearchWarn
    \/ SearchSkip
    \/ TilesOk
    \/ TilesKeyError
    \/ Advisory
    \/ OverviewOk
    \/ OverviewKeyError
    \/ Export

\* one run of the script on any file and any widget state
Spec == Init /\ [][Next]_vars

NextLoad == LoadOk \/ LoadFail

\* the load alone, on every site label up to MaxLen
SpecLoad == InitLoad /\ [][NextLoad]_vars

----------------------------------------------------------------------------
(* Direct calls of the functions. *)

InitCall(calls) ==
    /\ pc = "call"
    /\ file = Unreadable
    /\ df = NoFrame
    /\ search_button = FALSE
    /\ selected_building = <<>>
    /\ building_data = <<>>
    /\ avg_values = EmptyMap
    /\ status_calls = {}
    /\ bad_items = <<>>
    /\ overall_avg = EmptyMap
    /\ shown = {}
    /\ csv = NoCsv
    /\ call \in calls
    /\ ret = NoRet

Returns(value) ==
    /\ pc = "call"
    /\ ret' = [done |-> TRUE, value |-> value]
    /\ pc' = "returned"
    /\ UNCHANGED <<file, df, search_button, selected_building, building_data,
                   avg_values, status_calls, bad_items, overall_avg, shown, csv, call>>

\* the thresholds of the table, each with its neighbours one hundredth away
NearThresholds ==
    UNION {{t - 1, t, t + 1} :
             t \in UNION {{AIR_QUALITY_STANDARDS[p].good, AIR_QUALITY_STANDARDS[p].moderate,
                           AIR_QUALITY_STANDARDS[p].bad} : p \in Pollutants}}

\* readings a classifier call is drawn from: NaN, zero, a negative number, the
\* values at and next to every threshold, and the half hundredth above each
ClassifyValues ==
    {NaN, Num(0), Num(-100)} \cup {Num(n) : n \in NearThresholds}
                  \cup {Rat(2 * n + 1, 2) : n \in NearThresholds}

\* keys that are not in the table: another gas, and a known key in lower case
UnknownKeys == {"O3", "pm10", ""}

ClassifyCalls ==
    {[fn |-> "get_air_quality_status", value |-> v, pollutant |-> p] :
       v \in ClassifyValues, p \in Pollutants \cup UnknownKeys}

InitClassify == InitCall(ClassifyCalls)

CallClassify ==
    /\ call.fn = "get_air_quality_status"
    /\ Returns(get_air_quality_status(call.value, call.pollutant))

SpecClassify == InitClassify /\ [][CallClassify]_vars

\* the examples of the documentation of the function's contract
ExampleSites ==
    {<<"C", "e", "n", "t", "r", "a", "l", " ", "H", "a", "l", "l", "-", "L", "o", "b", "b", "y">>,
     <<"A", "-", "B", "-", "C">>,
     <<"N", "o", "S", "e", "p", "a", "r", "a", "t", "o", "r", "H", "e", "r", "e">>}

ExtractCalls ==
    {[fn |-> "extract_building_name", location |-> s] :
       s \in StringsUpTo({"a", "-", " "}, MaxLen) \cup ExampleSites}

InitExtract == InitCall(ExtractCalls)

CallExtract ==
    /\ call.fn = "extract_building_name"
    /\ Returns(extract_building_name(call.location))

SpecExtract == InitExtract /\ [][CallExtract]_vars

\* the two groups of pollutant columns the drawn subsets vary independently
GroupA == {"PM10", "CO2", "CO", "Radon"}

AggregateCells == {NaN, Num(1000), Num(2000)}

AggregateRows ==
    {RowOf(FullColumns, <<"a">>, <<>>,
           [k \in Pollutants |-> IF k \in GroupA THEN a ELSE b]) :
       a \in AggregateCells, b \in AggregateCells}

\* row subsets of a frame whose pollutant columns are numeric, the empty one included
MeanCalls ==
    {[fn |-> "mean", rows |-> t] :
       t \in UNION {[1..m -> AggregateRows] : m \in 0..MaxSubset}}

InitAggregate == InitCall(MeanCalls)

\* lines 276 and 468 on a row subset
CallMean ==
    /\ call.fn = "mean"
    /\ Returns(FrameMean(FullColumns, call.rows))

SpecAggregate == InitAggregate /\ [][CallMean]_vars

----------------------------------------------------------------------------
(* The properties. *)

\* the threshold table of the design document, in hundredths of the unit
AuthoritativeTable ==
    [p \in {"PM10", "PM2.5", "CO2", "HCHO", "CO", "NO2", "Radon", "TVOC"} |->
        CASE p = "PM10"  -> [goodMax |-> 3000,  moderateMax |-> 8000,  badMax |-> 15000]
          [] p = "PM2.5" -> [goodMax |-> 1500,  moderateMax |-> 3500,  badMax |-> 7500]
          [] p = "CO2"   -> [goodMax |-> 45000, moderateMax |-> 70000, badMax |-> 100000]
          [] p = "HCHO"  -> [goodMax |-> 6000,  moderateMax |-> 10000, badMax |-> 21000]
          [] p = "CO"    -> [goodMax |-> 500,   moderateMax |-> 1000,  badMax |-> 2500]
          [] p = "NO2"   -> [goodMax |-> 3,     moderateMax |-> 5,     badMax |-> 10]
          [] p = "Radon" -> [goodMax |-> 10000, moderateMax |-> 14800, badMax |-> 20000]
          [] p = "TVOC"  -> [goodMax |-> 40000, moderateMax |-> 50000, badMax |-> 100000]]

RecognizedKeys == DOMAIN AuthoritativeTable

\* the rational v is at most, or above, the integer t
AtMost(v, t) == v.n <= t * v.d

Above(v, t) == v.n > t * v.d

\* C1: for each of the 8 recognized keys and every present value v, the
\* classifier returns Good exactly when v <= goodMax, Moderate exactly when
\* goodMax < v <= moderateMax, Bad exactly when moderateMax < v <= badMax and
\* VeryBad exactly when v > badMax, with the thresholds of the authoritative
\* table; a value equal to a threshold falls in the lower tier.
C1_TierByInclusiveBounds ==
    (ret.done /\ call.pollutant \in RecognizedKeys /\ ~call.value.nan) =>
        LET t == AuthoritativeTable[call.pollutant]
            v == call.value
            tier == ret.value[1]
        IN /\ tier \in {"Good", "Moderate", "Bad", "VeryBad"}
           /\ (tier = "Good" <=> AtMost(v, t.goodMax))
           /\ (tier = "Moderate" <=> (Above(v, t.goodMax) /\ AtMost(v, t.moderateMax)))
           /\ (tier = "Bad" <=> (Above(v, t.moderateMax) /\ AtMost(v, t.badMax)))
           /\ (tier = "VeryBad" <=> Above(v, t.badMax))

\* a reading of exactly moderateMax of NO2 (0.05 ppm) was classified Moderate
C1_Witness ==
    /\ ret.done
    /\ call.pollutant = "NO2"
    /\ call.value = Num(5)
    /\ ret.value = <<"Moderate", "yellow">>

\* C9: for a key that is not one of the 8 recognized keys the classifier
\* returns the Unknown tier with the white icon, whatever the value, present
\* or absent; Unknown is none of Good, Moderate, Bad, VeryBad.
C9_UnknownKeyGivesUnknown ==
    (ret.done /\ call.pollutant \notin RecognizedKeys) =>
        /\ ret.value = <<"Unknown", "white">>
        /\ ret.value[1] \notin {"Good", "Moderate", "Bad", "VeryBad"}

\* the lower-case key "pm10" with an absent value was classified Unknown
C9_Witness ==
    /\ ret.done
    /\ call.pollutant = "pm10"
    /\ call.value = NaN
    /\ ret.value[1] = "Unknown"

\* s without its leading and trailing whitespace, by the positions of its
\* first and last non-blank characters
Trimmed(s) ==
    LET solid == {i \in 1..Len(s) : ~IsSpace(s[i])} IN
    IF solid = {} THEN <<>>
    ELSE SubSeq(s, CHOOSE i \in solid : \A j \in solid : i <= j,
                   CHOOSE i \in solid : \A j \in solid : i >= j)

\* the part of s before its last hyphen, the whole of s when it has none
BeforeLastHyphen(s) ==
    LET hyphens == {i \in 1..Len(s) : s[i] = "-"} IN
    IF hyphens = {} THEN s
    ELSE SubSeq(s, 1, (CHOOSE i \in hyphens : \A j \in hyphens : i >= j) - 1)

\* C5: extract_building_name(s) is the part of s before the last hyphen with
\* the surrounding whitespace trimmed, and the whole of s trimmed when s has
\* no hyphen; earlier hyphens stay in the result.
C5_PrefixBeforeLastHyphen ==
    ret.done => ret.value = Trimmed(BeforeLastHyphen(call.location))

\* "A-B-C" gave "A-B"
C5_Witness ==
    /\ ret.done
    /\ call.location = <<"A", "-", "B", "-", "C">>
    /\ ret.value = <<"A", "-", "B">>

RECURSIVE SumOver(_, _, _)
SumOver(S, rows, k) ==
    IF S = {} THEN 0
    ELSE LET i == CHOOSE j \in S : TRUE IN rows[i].vals[k].n + SumOver(S \ {i}, rows, k)

\* C4: for every row subset, the empty one included, and each of the 8
\* pollutant keys, the aggregate is the arithmetic mean of exactly the present
\* readings of that pollutant (absent readings are left out, not counted as
\* zero), and is absent exactly when no row has a present reading of it.
C4_MeanOfPresentReadings ==
    ret.done =>
        \A k \in RecognizedKeys :
            LET present == {i \in 1..Len(call.rows) : ~call.rows[i].vals[k].nan} IN
            /\ k \in DOMAIN ret.value
            /\ ret.value[k].nan <=> present = {}
            /\ present # {} =>
                 ret.value[k].n * Cardinality(present)
                   = SumOver(present, call.rows, k) * ret.value[k].d

\* the PM10 readings 10, 20 and absent gave the mean 15
C4_Witness ==
    /\ ret.done
    /\ Len(call.rows) = 3
    /\ [i \in 1..3 |-> call.rows[i].vals["PM10"]] = <<Num(1000), Num(2000), NaN>>
    /\ ret.value["PM10"] = Num(1500)

IsPrefix(a, b) == Len(a) <= Len(b) /\ SubSeq(b, 1, Len(a)) = a

\* C6, as stated: after a successful load every row has a non-empty building
\* name that is a prefix of its site label.
C6_NonEmptyPrefix ==
    pc = "widgets" =>
        \A i \in 1..Len(df.rows) :
            /\ df.rows[i].building # <<>>
            /\ IsPrefix(df.rows[i].building, df.rows[i].site)

\* C6, amended: after a successful load every row's building name is empty
\* exactly when the part of its site label before the last hyphen is empty or
\* only whitespace, occurs in the site label, and is a prefix of the site
\* label whenever the label does not start with whitespace.
C6_TrimmedHeadOfSite ==
    pc = "widgets" =>
        \A i \in 1..Len(df.rows) :
            LET s == df.rows[i].site
                b == df.rows[i].building
                head == BeforeLastHyphen(s)
            IN /\ b = <<>> <=> \A j \in 1..Len(head) : IsSpace(head[j])
               /\ \E j \in 0..(Len(s) - Len(b)) : SubSeq(s, j + 1, j + Len(b)) = b
               /\ (s # <<>> /\ ~IsSpace(s[1])) => IsPrefix(b, s)

\* the label "-a" was loaded and its building name is empty
C6_Witness ==
    /\ pc = "widgets"
    /\ \E i \in 1..Len(df.rows) :
         df.rows[i].site = <<"-", "a">> /\ df.rows[i].building = <<>>

\* C2: the classifier is never called with an absent mean, and no tier is
\* listed in the health advisory for a pollutant whose mean is absent.
C2_NoAbsentMeanClassified ==
    /\ \A c \in status_calls : ~c.value.nan
    /\ \A i \in 1..Len(bad_items) : ~avg_values[bad_items[i][1]].nan

\* every column is there, no matched row has a Radon reading, and the advisory
\* lists Radon as VeryBad
C2_Witness ==
    /\ pc = "overview"
    /\ Pollutants \subseteq Range(file.columns)
    /\ "Radon" \in DOMAIN avg_values /\ avg_values["Radon"].nan
    /\ <<"Radon", "VeryBad", "red">> \in Range(bad_items)

\* q occurs in s as a literal substring, letter case ignored
ContainsLiteral(s, q) ==
    \E j \in 0..(Len(s) - Len(q)) :
        \A m \in 1..Len(q) : Lower(s[j + m]) = Lower(q[m])

LiteralFilter(rows, q) ==
    LET Keep(r) == ContainsLiteral(r.building, q) IN SelectSeq(rows, Keep)

\* C3: for every non-empty query the matcher selects exactly the rows whose
\* building name contains the query as a literal case-insensitive substring,
\* in dataset order.
C3_LiteralSubstringMatch ==
    (QuerySubmitted /\ pc \notin {"widgets", "search"}) =>
        /\ "results" \in shown \/ "not_found" \in shown
        /\ building_data = LiteralFilter(df.rows, selected_building)

\* the query "." selected rows although no building name contains a dot
C3_Witness ==
    /\ pc = "tiles"
    /\ selected_building = <<".">>
    /\ building_data # <<>>
    /\ LiteralFilter(df.rows, selected_building) = <<>>

\* C7: a pressed search with an empty or placeholder query shows the
\* select-or-enter warning, runs no matching, aggregation or classification
\* and shows no "not found" message; a submitted query that no building name
\* contains shows "not found" and no warning; never both.
C7_QueryBranches ==
    (search_button /\ pc \notin {"widgets", "search"}) =>
        /\ (selected_building = <<>> \/ selected_building = Placeholder) =>
              /\ "select_warning" \in shown
              /\ "not_found" \notin shown
              /\ "results" \notin shown
              /\ building_data = <<>> /\ avg_values = EmptyMap /\ status_calls = {}
        /\ (QuerySubmitted /\ LiteralFilter(df.rows, selected_building) = <<>>) =>
              /\ "not_found" \in shown
              /\ "select_warning" \notin shown
        /\ ~({"not_found", "select_warning"} \subseteq shown)

\* the query "(", which no building name contains, ended the run with neither
\* message shown
C7_Witness ==
    /\ pc = "crashed"
    /\ search_button /\ selected_building = <<"(">>
    /\ LiteralFilter(df.rows, selected_building) = <<>>
    /\ "not_found" \notin shown /\ "select_warning" \notin shown

\* C8: the downloaded table has the header names of the loaded file in the
\* same order, no column added or removed, and reading it again gives the
\* same pollutant values row for row.
C8_ExportSameHeader ==
    pc = "done" =>
        /\ csv.header = file.columns
        /\ Len(csv.rows) = Len(file.rows)
        /\ \A i \in 1..Len(file.rows) :
             \A k \in DOMAIN file.rows[i].vals :
                 /\ k \in DOMAIN csv.rows[i].vals
                 /\ ParseCell(csv.rows[i].vals[k]) = file.rows[i].vals[k]

\* a file with the nine input columns was exported with a tenth, the building
\* column, while every pollutant value reads back unchanged
C8_Witness ==
    /\ pc = "done"
    /\ file.columns = FullColumns
    /\ csv.header = Append(FullColumns, "building")
    /\ \A i \in 1..Len(file.rows) : \A k \in DOMAIN file.rows[i].vals :
         ParseCell(csv.rows[i].vals[k]) = file.rows[i].vals[k]

\* what a search, match, aggregation, classification, overview or export step shows
StepOutputs ==
    {"results", "not_found", "select_warning", "tiles", "detail_table",
     "comparison_chart", "advisory_warning", "all_good", "overview_charts",
     "overview_metrics", "full_table", "download"}

\* C10: after a load failure the run reports it and stops, no later step
\* executes; every step executes only after a successful load of a file that
\* has the site column and all 8 pollutant columns.
C10_StepsOnlyAfterFullLoad ==
    /\ "load_error" \in shown =>
          /\ pc = "stopped"
          /\ shown = {"load_error"}
          /\ status_calls = {} /\ building_data = <<>> /\ csv = NoCsv
    /\ (shown \cap StepOutputs # {}) =>
          /\ "load_success" \in shown
          /\ "site" \in Range(file.columns)
          /\ RecognizedKeys \subseteq Range(file.columns)

\* the load of a file without the Radon column succeeded and the search
\* matched and aggregated
C10_Witness ==
    /\ "load_success" \in shown
    /\ "Radon" \notin Range(file.columns)
    /\ "results" \in shown
    /\ building_data # <<>>

====
